---- MODULE Spec2Model ----
(***************************************************************************)
(* Model of chainlink_blockchain.py: Block (hash-sealed order event) and   *)
(* OrderBlockchain (append, validate, query), plus the direct field        *)
(* mutation and re-hash that simulate_order_tracking performs on stored    *)
(* blocks.                                                                 *)
(*                                                                         *)
(* Positions are Python positions (0-based) wherever they are reported or  *)
(* stored in a block; chain itself is a TLA+ sequence, so the block at     *)
(* Python position p is chain[p + 1].                                      *)
(***************************************************************************)
EXTENDS Integers, Sequences, FiniteSets

VARIABLES chain,    \* OrderBlockchain.chain
          clock,    \* the value datetime.now() last returned
          ret,      \* the last call and what it returned / printed
          orig,     \* history: the chain as the constructor and add_block built it
          tampers,  \* history: number of tampering field assignments made so far
          pending   \* per caller: the locals of an add_block call in progress

vars == <<chain, clock, ret, orig, tampers, pending>>

-----------------------------------------------------------------------------
(* Bounds of the model *)

MaxChain == 3       \* add_block is called while len(chain) < MaxChain

MaxTime == 1        \* datetime.now() ranges over 0..MaxTime

MaxTampers == 1     \* tampering field assignments per behaviour

-----------------------------------------------------------------------------
(* Values *)

\* Python's None and dicts, as the data attribute holds them.  A dict keeps
\* its items in insertion order.
None == [isNone |-> TRUE, items |-> <<>>]

Dict(items) == [isNone |-> FALSE, items |-> items]

\* The keys used in attribute mappings, in the order sort_keys puts them.
KeyOrder == <<"customer", "employee">>

\* A datetime object and the text str() renders it as.
DateTime(t) == <<"datetime", t>>

IsoText(t) == <<"str", t>>

\* str(x) for a datetime or for a string: a string is its own str().
Str(ts) == IsoText(ts[2])

\* The previous_hash given to the genesis block: the string "0".
Sentinel == <<"0">>

OrderIds == {"A1", "B2"}

Locations == {"Loc1"}

Actions == {"Received"}

DataInputs == {None, Dict(<<>>), Dict(<< <<"customer", "Ana">> >>)}

-----------------------------------------------------------------------------
(* Block *)

\* Python truthiness of a data argument: None and the empty dict are falsy.
Falsy(data) == data.isNone \/ data.items = <<>>

RECURSIVE SortedItems(_, _)
\* The items of a dict in sort_keys order: walk KeyOrder from position k on.
SortedItems(items, k) ==
    IF k > Len(KeyOrder) THEN <<>>
    ELSE LET here == SelectSeq(items, LAMBDA it : it[1] = KeyOrder[k])
         IN  here \o SortedItems(items, k + 1)

\* json.dumps of the data attribute: null for None, else the object with its
\* keys sorted.
JsonData(data) ==
    IF data.isNone THEN <<"null">> ELSE <<"object", SortedItems(data.items, 1)>>

\* The text json.dumps(..., sort_keys=True) produces for a block: the seven
\* fields, the timestamp through str().
BlockString(b) ==
    [index         |-> b.index,
     timestamp     |-> Str(b.timestamp),
     order_id      |-> b.order_id,
     location      |-> b.location,
     action        |-> b.action,
     data          |-> JsonData(b.data),
     previous_hash |-> b.previous_hash]

\* SHA-256 taken as collision-free: the digest stands for the text it digests.
Sha256(s) == <<"sha256", s>>

CalculateHash(b) == Sha256(BlockString(b))

\* Block.__init__ with the hash left at the sentinel instead of computed.
BlockNoHash(index, timestamp, order_id, location, action, previous_hash, data) ==
    [index |-> index, timestamp |-> timestamp, order_id |-> order_id,
     location |-> location, action |-> action,
     data |-> IF Falsy(data) THEN Dict(<<>>) ELSE data,
     previous_hash |-> previous_hash, hash |-> Sentinel]

Block(index, timestamp, order_id, location, action, previous_hash, data) ==
    LET fields == [index |-> index, timestamp |-> timestamp, order_id |-> order_id,
                   location |-> location, action |-> action,
                   data |-> IF Falsy(data) THEN Dict(<<>>) ELSE data,
                   previous_hash |-> previous_hash, hash |-> Sentinel]
    IN  [fields EXCEPT !.hash = CalculateHash(fields)]

-----------------------------------------------------------------------------
(* OrderBlockchain *)

\* A genesis block that takes index 1.
CreateGenesisBlockOne(now) ==
    <<Block(1, DateTime(now), "GENESIS", "System", "Chain Initialized", Sentinel, None)>>

\* The chain after __init__ ran at time now: [] then create_genesis_block().
CreateGenesisBlock(now) ==
    <<Block(0, DateTime(now), "GENESIS", "System", "Chain Initialized", Sentinel, None)>>

GetLatestBlock(c) == c[Len(c)]

\* The callers that may be inside add_block at the same time.
Callers == {"w1", "w2"}

\* A caller that is not inside add_block.
Idle == [pc |-> "idle"]

Init ==
    /\ clock \in 0..MaxTime
    /\ chain = CreateGenesisBlock(clock)
    /\ orig = chain
    /\ tampers = 0
    /\ ret = [op |-> "__init__"]
    /\ pending = [c \in Callers |-> Idle]

\* add_block that numbers the new block by the length of the chain plus one.
AddBlockIndexOff(order_id, location, action, data, now) ==
    /\ Len(chain) < MaxChain
    /\ now >= clock
    /\ LET previous_block == GetLatestBlock(chain)
             new_block == Block(Len(chain) + 1, DateTime(now), order_id, location,
                                action, previous_block.hash, data)
         IN  /\ clock' = now
             /\ chain' = Append(chain, new_block)
             /\ orig' = Append(orig, new_block)
             /\ ret' = [op |-> "add_block", val |-> new_block]
    /\ UNCHANGED <<tampers, pending>>

\* add_block that links the new block to the sentinel instead of the last hash.
AddBlockUnlinked(order_id, location, action, data, now) ==
    /\ Len(chain) < MaxChain
    /\ now >= clock
    /\ LET previous_block == GetLatestBlock(chain)
             new_block == Block(previous_block.index + 1, DateTime(now), order_id,
                                location, action, Sentinel, data)
         IN  /\ clock' = now
             /\ chain' = Append(chain, new_block)
             /\ orig' = Append(orig, new_block)
             /\ ret' = [op |-> "add_block", val |-> new_block]
    /\ UNCHANGED <<tampers, pending>>

\* add_block that puts the new block at the head of the list.
AddBlockAtHead(order_id, location, action, data, now) ==
    /\ Len(chain) < MaxChain
    /\ now >= clock
    /\ LET previous_block == GetLatestBlock(chain)
             new_block == Block(previous_block.index + 1, DateTime(now), order_id,
                                location, action, previous_block.hash, data)
         IN  /\ clock' = now
             /\ chain' = <<new_block>> \o chain
             /\ orig' = <<new_block>> \o orig
             /\ ret' = [op |-> "add_block", val |-> new_block]
    /\ UNCHANGED <<tampers, pending>>

\* add_block(order_id, location, action, data), with now the value datetime.now()
\* returns during the call: read the last block, build the next one, append
\* it, return it.
AddBlock(order_id, location, action, data, now) ==
    /\ Len(chain) < MaxChain
    /\ now >= clock
    /\ LET previous_block == GetLatestBlock(chain)
             new_index == previous_block.index + 1
             new_timestamp == DateTime(now)
             new_block == Block(new_index, new_timestamp, order_id, location,
                                action, previous_block.hash, data)
         IN  /\ clock' = now
             /\ chain' = Append(chain, new_block)
             /\ orig' = Append(orig, new_block)
             /\ ret' = [op |-> "add_block", val |-> new_block]
    /\ UNCHANGED <<tampers, pending>>

\* What validate_chain returns and prints: True, or False with the position
\* and the kind of the message printed.
Valid == [op |-> "validate_chain", ok |-> TRUE, pos |-> -1, kind |-> "none"]

Invalid(i, kind) ==
    [op |-> "validate_chain", ok |-> FALSE, pos |-> i, kind |-> kind]

RECURSIVE ValidateLoopLinkFirst(_, _)
\* The loop with the two checks in the other order.
ValidateLoopLinkFirst(c, i) ==
    IF i >= Len(c) THEN Valid
    ELSE LET current_block == c[i + 1]
             previous_block == c[i]
         IN  IF current_block.previous_hash # previous_block.hash
             THEN Invalid(i, "Chain broken")
             ELSE IF current_block.hash # CalculateHash(current_block)
             THEN Invalid(i, "Hash mismatch")
             ELSE ValidateLoopLinkFirst(c, i + 1)

RECURSIVE ValidateLoopNoLink(_, _)
\* The loop without the previous_hash check.
ValidateLoopNoLink(c, i) ==
    IF i >= Len(c) THEN Valid
    ELSE LET current_block == c[i + 1]
         IN  IF current_block.hash # CalculateHash(current_block)
             THEN Invalid(i, "Hash mismatch")
             ELSE ValidateLoopNoLink(c, i + 1)

RECURSIVE ValidateLoopFromZero(_, _)
\* The loop entered one position early, range(len(self.chain)): at position 0
\* Python's chain[i-1] is the last block.
ValidateLoopFromZero(c, i) ==
    IF i - 1 >= Len(c) THEN Valid
    ELSE LET current_block == c[i]
             previous_block == IF i = 1 THEN c[Len(c)] ELSE c[i - 1]
         IN  IF current_block.hash # CalculateHash(current_block)
             THEN Invalid(i - 1, "Hash mismatch")
             ELSE IF current_block.previous_hash # previous_block.hash
             THEN Invalid(i - 1, "Chain broken")
             ELSE ValidateLoopFromZero(c, i + 1)

\* The loop over the last position only, range(len(self.chain) - 1,
\* len(self.chain)), the blocks before it left unchecked.
ValidateLoopTail(c, i) ==
    IF Len(c) <= i THEN Valid
    ELSE LET current_block == c[Len(c)]
             previous_block == c[Len(c) - 1]
         IN  IF current_block.hash # CalculateHash(current_block)
             THEN Invalid(Len(c) - 1, "Hash mismatch")
             ELSE IF current_block.previous_hash # previous_block.hash
             THEN Invalid(Len(c) - 1, "Chain broken")
             ELSE Valid

RECURSIVE ValidateLoopMonotonic(_, _)
\* The loop of validate_chain with a third check: a timestamp earlier than
\* the predecessor's is rejected.
ValidateLoopMonotonic(c, i) ==
    IF i >= Len(c) THEN Valid
    ELSE LET current_block == c[i + 1]
             previous_block == c[i]
         IN  IF current_block.hash # CalculateHash(current_block)
             THEN Invalid(i, "Hash mismatch")
             ELSE IF current_block.previous_hash # previous_block.hash
             THEN Invalid(i, "Chain broken")
             ELSE IF current_block.timestamp[2] < previous_block.timestamp[2]
             THEN Invalid(i, "Backdated")
             ELSE ValidateLoopMonotonic(c, i + 1)

RECURSIVE ValidateLoop(_, _)
\* The body of validate_chain's for loop from position i on.
ValidateLoop(c, i) ==
    IF i >= Len(c) THEN Valid
    ELSE LET current_block == c[i + 1]
             previous_block == c[i]
         IN  IF current_block.hash # CalculateHash(current_block)
             THEN Invalid(i, "Hash mismatch")
             ELSE IF current_block.previous_hash # previous_block.hash
             THEN Invalid(i, "Chain broken")
             ELSE ValidateLoop(c, i + 1)

\* validate_chain(): for i in range(1, len(self.chain)).
\* A validation that also stores each block's recomputed hash.
ValidateChainRepairing ==
    /\ ret' = ValidateLoop(chain, 1)
    /\ chain' = [p \in 1..Len(chain) |->
                    [chain[p] EXCEPT !.hash = CalculateHash(chain[p])]]
    /\ UNCHANGED <<clock, orig, tampers, pending>>

ValidateChain ==
    /\ ret' = ValidateLoop(chain, 1)
    /\ UNCHANGED <<chain, clock, orig, tampers, pending>>

RECURSIVE JourneyFromTail(_, _, _)
\* The comprehension walking the chain from its last block to its first.
JourneyFromTail(c, order_id, i) ==
    IF i < 1 THEN <<>>
    ELSE (IF c[i].order_id = order_id THEN <<c[i]>> ELSE <<>>)
         \o JourneyFromTail(c, order_id, i - 1)

RECURSIVE JourneyFrom(_, _, _)
\* [block for block in self.chain if block.order_id == order_id], from the
\* i-th block on.
JourneyFrom(c, order_id, i) ==
    IF i > Len(c) THEN <<>>
    ELSE (IF c[i].order_id = order_id THEN <<c[i]>> ELSE <<>>)
         \o JourneyFrom(c, order_id, i + 1)

\* get_order_journey with the blocks in reverse chain order.
GetOrderJourneyReversed(order_id) ==
    /\ ret' = [op |-> "get_order_journey", key |-> order_id,
               val |-> JourneyFromTail(chain, order_id, Len(chain))]
    /\ UNCHANGED <<chain, clock, orig, tampers, pending>>

GetOrderJourney(order_id) ==
    /\ ret' = [op |-> "get_order_journey", key |-> order_id,
               val |-> JourneyFrom(chain, order_id, 1)]
    /\ UNCHANGED <<chain, clock, orig, tampers, pending>>

-----------------------------------------------------------------------------
(* Direct mutation of stored blocks, as simulate_order_tracking does it *)

FieldNames ==
    {"index", "timestamp", "order_id", "location", "action", "data", "previous_hash"}

\* Python's == on the values a field holds; two dicts are equal whatever the
\* order their items were inserted in.
PyEq(field, v, w) ==
    IF field = "data"
    THEN v.isNone = w.isNone /\ SortedItems(v.items, 1) = SortedItems(w.items, 1)
    ELSE v = w

\* The values assigned to a field of the block at position p: the value the
\* block was built with, and others.
AssignedValues(p, field) ==
    CASE field = "index"         -> {orig[p + 1].index, p + 1}
      [] field = "timestamp"     -> {orig[p + 1].timestamp, DateTime(0),
                                     Str(chain[p + 1].timestamp)}
      [] field = "order_id"      -> {orig[p + 1].order_id, "B2"}
      [] field = "location"      -> {orig[p + 1].location, "Loc2"}
      [] field = "action"        -> {orig[p + 1].action, "PACKAGE LOST"}
      [] field = "data"          -> {orig[p + 1].data, None}
      [] field = "previous_hash" -> {orig[p + 1].previous_hash, Sentinel,
                                     orig[p + 1].hash}

\* Whether assigning value puts back what the block was built with.
Restores(p, field, value) == PyEq(field, orig[p + 1][field], value)

\* blockchain.chain[p].<field> = value, the hash left as it is.  Assignments
\* that put the built value back are not counted as tampering.
Assign(p, field, value) ==
    /\ p \in 0..(Len(chain) - 1)
    /\ ~PyEq(field, chain[p + 1][field], value)
    /\ Restores(p, field, value) \/ tampers < MaxTampers
    /\ chain' = [chain EXCEPT ![p + 1][field] = value]
    /\ tampers' = IF Restores(p, field, value) THEN tampers ELSE tampers + 1
    /\ ret' = [op |-> "assign"]
    /\ UNCHANGED <<clock, orig, pending>>

\* blockchain.chain[p].hash = blockchain.chain[p].calculate_hash()
Rehash(p) ==
    /\ p \in 0..(Len(chain) - 1)
    /\ chain' = [chain EXCEPT ![p + 1].hash = CalculateHash(chain[p + 1])]
    /\ ret' = [op |-> "rehash"]
    /\ UNCHANGED <<clock, orig, tampers, pending>>

-----------------------------------------------------------------------------
(* Specifications *)

Append1 ==
    \E order_id \in OrderIds, location \in Locations, action \in Actions,
       data \in DataInputs, now \in 0..MaxTime :
        AddBlock(order_id, location, action, data, now)

Journey == \E order_id \in OrderIds \cup {"GENESIS", "ZZ"} : GetOrderJourney(order_id)

\* The ledger's own operations.
Next == Append1 \/ ValidateChain \/ Journey

Spec == Init /\ [][Next]_vars

\* Appends while blocks are being mutated: one order, the clock standing still
\* within a behaviour.
AppendOne ==
    AddBlock("A1", "Loc1", "Received", Dict(<< <<"customer", "Ana">> >>), clock)

Mutate ==
    \E p \in 0..(MaxChain - 1), field \in FieldNames :
        /\ p < Len(chain)
        /\ \E value \in AssignedValues(p, field) : Assign(p, field, value)

Recompute == \E p \in 0..(MaxChain - 1) : Rehash(p)

\* The ledger's operations and direct mutation of its blocks.
TamperNext == AppendOne \/ ValidateChain \/ Mutate \/ Recompute

TamperSpec == Init /\ [][TamperNext]_vars

\* Queries of an order that has events and of one that has none.
JourneyOne == \E order_id \in {"A1", "ZZ"} : GetOrderJourney(order_id)

\* The reading operations called on ledgers that were appended to and
\* tampered with.
ReadNext == AppendOne \/ Mutate \/ ValidateChain \/ JourneyOne

ReadSpec == Init /\ [][ReadNext]_vars

-----------------------------------------------------------------------------
(* add_block with attributes json.dumps cannot encode *)

\* A value json.dumps has no encoding for (a Python set).
SetValue == "set()"

Unserializable == {SetValue}

\* Attribute mappings holding such a value, alone and after an encodable item.
BadInputs ==
    {Dict(<< <<"customer", SetValue>> >>),
     Dict(<< <<"customer", "Ana">>, <<"employee", SetValue>> >>)}

\* The positions of the items of data whose value json.dumps rejects.
BadItems(data) ==
    IF Falsy(data) THEN {}
    ELSE {i \in 1..Len(data.items) : data.items[i][2] \in Unserializable}

\* The key at which json.dumps, walking the keys in sorted order, stops.
OffendingKey(data) ==
    LET bad == {data.items[i][1] : i \in BadItems(data)}
        first == CHOOSE k \in 1..Len(KeyOrder) :
                    /\ KeyOrder[k] \in bad
                    /\ \A j \in 1..(k - 1) : KeyOrder[j] \notin bad
    IN  KeyOrder[first]

\* The TypeError of json.dumps: its message names the type of the value; the
\* notes, which newer interpreters attach, name the dict item being encoded.
TypeError(data, notes) ==
    [type |-> "TypeError",
     message |-> <<"Object of type", "set", "is not JSON serializable">>,
     notes |-> IF notes THEN {OffendingKey(data)} ELSE {}]

\* add_block called with any attributes: when json.dumps rejects them, the
\* exception leaves Block.__init__ and add_block after datetime.now() and
\* before self.chain.append.
AddBlockCall(order_id, location, action, data, now) ==
    IF BadItems(data) = {}
    THEN AddBlock(order_id, location, action, data, now)
    ELSE /\ now >= clock
         /\ clock' = now
         /\ \E notes \in BOOLEAN :
               ret' = [op |-> "raise", data |-> data, error |-> TypeError(data, notes)]
         /\ UNCHANGED <<chain, orig, tampers, pending>>

AppendAny ==
    \E order_id \in OrderIds, data \in DataInputs \cup BadInputs, now \in 0..MaxTime :
        AddBlockCall(order_id, "Loc1", "Received", data, now)

ErrorNext == AppendAny \/ ValidateChain

ErrorSpec == Init /\ [][ErrorNext]_vars

-----------------------------------------------------------------------------
(* Block and calculate_hash on their own *)

\* Attribute arguments: absent, empty, one item, the same two items inserted
\* in both orders, and one item with another value.
HashData ==
    DataInputs \cup
    {Dict(<< <<"customer", "Ana">>, <<"employee", "Bo">> >>),
     Dict(<< <<"employee", "Bo">>, <<"customer", "Ana">> >>),
     Dict(<< <<"customer", "Eve">> >>)}

\* Timestamp arguments: two datetime objects and the text str() renders the
\* first as.
HashTimes == {DateTime(0), IsoText(0), DateTime(1)}

\* The blocks Block(...) builds from these arguments.
HashBlocks ==
    {Block(index, timestamp, order_id, location, action, previous_hash, data) :
        index \in {1, 2}, timestamp \in HashTimes, order_id \in OrderIds,
        location \in {"Loc1", "Loc2"}, action \in {"Received", "PACKAGE LOST"},
        previous_hash \in {Sentinel, chain[1].hash}, data \in HashData}

\* A block constructed outside any chain.
NewBlock == \E b \in HashBlocks : ret' = [op |-> "Block", val |-> b]

Construct == NewBlock /\ UNCHANGED <<chain, clock, orig, tampers, pending>>

\* block.calculate_hash() called on the block constructed last.
Recalculate ==
    /\ ret.op \in {"Block", "calculate_hash"}
    /\ ret' = [op |-> "calculate_hash", val |-> ret.val, out |-> CalculateHash(ret.val)]
    /\ UNCHANGED <<chain, clock, orig, tampers, pending>>

\* Time passes.
Tick ==
    /\ clock < MaxTime
    /\ clock' = clock + 1
    /\ UNCHANGED <<chain, ret, orig, tampers, pending>>

HashNext == Construct \/ Recalculate \/ Tick

HashSpec == Init /\ [][HashNext]_vars

-----------------------------------------------------------------------------
(* Blocks appended to the list directly, with a timestamp of the caller's *)

\* blockchain.chain.append(Block(index, timestamp, ..., chain[-1].hash, data)):
\* the index is the next position, the timestamp any time, earlier than the
\* last block's or not.
DirectAppend(timestamp, order_id, location, action, data) ==
    /\ Len(chain) < MaxChain
    /\ LET new_block == Block(Len(chain), timestamp, order_id, location, action,
                              chain[Len(chain)].hash, data)
       IN  /\ chain' = Append(chain, new_block)
           /\ orig' = Append(orig, new_block)
    /\ ret' = [op |-> "append"]
    /\ UNCHANGED <<clock, tampers, pending>>

AppendDated ==
    \E t \in 0..MaxTime :
        DirectAppend(DateTime(t), "A1", "Loc1", "Received", Dict(<<>>))

\* The demonstration: dated appends, tampering, validation.
DemoNext == AppendDated \/ Mutate \/ ValidateChain

DemoSpec == Init /\ [][DemoNext]_vars

-----------------------------------------------------------------------------
(* add_block as the two steps callers can interleave *)

\* The calls in progress that have read the last block and not yet appended.
InFlight == {c \in Callers : pending[c].pc = "read"}

\* First step of add_block by caller c: previous_block = get_latest_block()
\* and new_index = previous_block.index + 1, kept in the call's locals.
AddBlockRead(c, order_id, location, action, data) ==
    /\ pending[c].pc = "idle"
    /\ Len(chain) + Cardinality(InFlight) < MaxChain
    /\ LET previous_block == GetLatestBlock(chain)
           new_index == previous_block.index + 1
       IN  pending' = [pending EXCEPT ![c] =
                          [pc |-> "read", previous_block |-> previous_block,
                           new_index |-> new_index, order_id |-> order_id,
                           location |-> location, action |-> action, data |-> data]]
    /\ UNCHANGED <<chain, clock, ret, orig, tampers>>

\* The second step with the index taken again from the block that is last now,
\* the previous hash still the one read in the first step.
AddBlockAppendReindexed(c, now) ==
    /\ pending[c].pc = "read"
    /\ now >= clock
    /\ LET l == pending[c]
           new_block == Block(GetLatestBlock(chain).index + 1, DateTime(now),
                              l.order_id, l.location, l.action,
                              l.previous_block.hash, l.data)
       IN  /\ chain' = Append(chain, new_block)
           /\ orig' = Append(orig, new_block)
           /\ ret' = [op |-> "add_block", val |-> new_block]
    /\ clock' = now
    /\ pending' = [pending EXCEPT ![c] = Idle]
    /\ UNCHANGED tampers

\* Second step of add_block by caller c: new_timestamp = datetime.now(), build
\* the block from the locals, self.chain.append(new_block), return it.
AddBlockAppend(c, now) ==
    /\ pending[c].pc = "read"
    /\ now >= clock
    /\ LET l == pending[c]
           new_timestamp == DateTime(now)
           new_block == Block(l.new_index, new_timestamp, l.order_id, l.location,
                              l.action, l.previous_block.hash, l.data)
       IN  /\ chain' = Append(chain, new_block)
           /\ orig' = Append(orig, new_block)
           /\ ret' = [op |-> "add_block", val |-> new_block]
    /\ clock' = now
    /\ pending' = [pending EXCEPT ![c] = Idle]
    /\ UNCHANGED tampers

ReadStep ==
    \E c \in Callers, order_id \in OrderIds, data \in DataInputs :
        AddBlockRead(c, order_id, "Loc1", "Received", data)

AppendStep == \E c \in Callers, now \in 0..MaxTime : AddBlockAppend(c, now)

\* Two callers inside add_block with nothing serializing them.
ConcNext == ReadStep \/ AppendStep \/ ValidateChain

ConcSpec == Init /\ [][ConcNext]_vars

-----------------------------------------------------------------------------
(* Properties *)

\* The block at Python position p re-hashes to its stored hash.
SelfConsistent(c, p) == c[p + 1].hash = CalculateHash(c[p + 1])

\* The block at Python position p >= 1 points at the stored hash of its
\* predecessor.
LinkedAt(c, p) == c[p + 1].previous_hash = c[p].hash

\* Every position from 1 on passes both checks.
Intact(c) == \A p \in 1..(Len(c) - 1) : SelfConsistent(c, p) /\ LinkedAt(c, p)

\* The Python positions of c that fail one of the two checks.
Failing(c) == {p \in 1..(Len(c) - 1) : ~SelfConsistent(c, p) \/ ~LinkedAt(c, p)}

\* chain is orig with exactly the given field of the block at p changed to a
\* different value, every hash as it was built.
OneFieldChanged(p, field) ==
    /\ p < Len(orig)
    /\ ~PyEq(field, chain[p + 1][field], orig[p + 1][field])
    /\ chain = [orig EXCEPT ![p + 1][field] = chain[p + 1][field]]

\* C1: after creation and any sequence of add_block calls, validate_chain()
\* returns True.
C1_ValidAfterAppends == ret.op = "validate_chain" => ret.ok

C1_Witness == ret.op = "validate_chain" /\ ret.ok /\ Len(chain) >= 3

\* C2: in every state reached by add_block calls each block after the genesis
\* carries its predecessor's stored hash as previous_hash, and re-hashing it
\* from its stored fields gives its stored hash.
C2_LinkedAndRehashable ==
    \A p \in 1..(Len(chain) - 1) :
        /\ chain[p + 1].previous_hash = chain[p].hash
        /\ CalculateHash(chain[p + 1]) = chain[p + 1].hash

C2_Witness == ret.op = "add_block" /\ Len(chain) >= 3

\* C3: changing one field of one stored block of a valid ledger, at any
\* position, without re-hashing makes validate_chain() return False and
\* report that block's position.
C3_AnyFieldMutationDetected ==
    \A p \in 0..(Len(chain) - 1), field \in FieldNames :
        (ret.op = "validate_chain" /\ Intact(orig) /\ OneFieldChanged(p, field))
            => (~ret.ok /\ ret.pos = p)

\* C4: once the fields of a mutated valid ledger are back at their built
\* values and the hashes are recomputed, validate_chain() returns True again.
C4_RestoredValidates ==
    ( /\ ret.op = "validate_chain"
      /\ tampers > 0
      /\ Intact(orig)
      /\ \A p \in 0..(Len(chain) - 1) :
            /\ \A field \in FieldNames : PyEq(field, chain[p + 1][field], orig[p + 1][field])
            /\ SelfConsistent(chain, p) )
    => ret.ok

C4_Witness ==
    /\ ret.op = "validate_chain" /\ ret.ok
    /\ tampers > 0
    /\ Len(chain) >= 3
    /\ Intact(orig)
    /\ \A p \in 0..(Len(chain) - 1) :
          /\ \A field \in FieldNames : PyEq(field, chain[p + 1][field], orig[p + 1][field])
          /\ SelfConsistent(chain, p)

\* C5: validate_chain() returns True exactly when every position from 1 to
\* length-1 passes both checks; position 0 is not checked, so a chain of the
\* genesis block alone validates whatever that block holds.
C5_ValidIffAllPass ==
    ret.op = "validate_chain" =>
        /\ ret.ok <=> Intact(chain)
        /\ Len(chain) = 1 => ret.ok

C5_Witness ==
    /\ ret.op = "validate_chain" /\ ret.ok
    /\ Len(chain) >= 2
    /\ ~SelfConsistent(chain, 0)

\* C6: a False result reports the smallest failing position; the kind is
\* hash mismatch exactly when that block's stored hash differs from its
\* re-hash, and chain broken only when it is self-consistent and its
\* previous_hash differs from the predecessor's hash.
C6_FirstFailureReported ==
    (ret.op = "validate_chain" /\ ~ret.ok) =>
        /\ ret.pos \in Failing(chain)
        /\ \A q \in Failing(chain) : ret.pos <= q
        /\ ret.kind = "Hash mismatch" <=> ~SelfConsistent(chain, ret.pos)
        /\ ret.kind = "Chain broken" <=>
              (SelfConsistent(chain, ret.pos) /\ ~LinkedAt(chain, ret.pos))

C6_Witness ==
    /\ ret.op = "validate_chain" /\ ~ret.ok
    /\ ret.pos = 1
    /\ ~SelfConsistent(chain, 1)
    /\ 2 \in Failing(chain)

\* The positions of the chain whose block has order_id k.
Matching(k) == {i \in 1..Len(chain) : chain[i].order_id = k}

\* C7: get_order_journey(k) returns the blocks whose order_id is k, each once,
\* in chain order, and nothing for a key no block uses.
C7_JourneyExact ==
    ret.op = "get_order_journey" =>
        /\ Len(ret.val) = Cardinality(Matching(ret.key))
        /\ \A j \in 1..Len(ret.val) :
              \E i \in Matching(ret.key) :
                  /\ Cardinality({m \in Matching(ret.key) : m < i}) = j - 1
                  /\ ret.val[j] = chain[i]

C7_Witness ==
    /\ ret.op = "get_order_journey"
    /\ Len(ret.val) = 2
    /\ Len(chain) = 3
    /\ chain[1].order_id # ret.key

\* C8: add_block lengthens the chain by one, leaves the blocks already stored
\* as they were, and returns the block now last, whose previous_hash is the
\* hash of the block that was last; no other ledger operation changes the chain.
C8_AppendOnly ==
    [][ /\ ret'.op = "add_block" =>
              /\ Len(chain') = Len(chain) + 1
              /\ SubSeq(chain', 1, Len(chain)) = chain
              /\ ret'.val = chain'[Len(chain')]
              /\ ret'.val.previous_hash = chain[Len(chain)].hash
        /\ ret'.op # "add_block" => chain' = chain ]_vars

C8_Witness == ret.op = "add_block" /\ Len(chain) >= 3 /\ ret.val = chain[Len(chain)]

\* C9: in every state reached by add_block calls the block at position i has
\* index i.
C9_IndexIsPosition == \A p \in 0..(Len(chain) - 1) : chain[p + 1].index = p

C9_Witness == Len(chain) >= 3 /\ chain[3].index = 2

\* C10: creation leaves exactly the genesis block (index 0, order_id GENESIS,
\* previous_hash "0"); afterwards the chain is never empty and position 0
\* keeps that block.
C10_GenesisKept ==
    /\ [](/\ Len(chain) >= 1
          /\ chain[1].index = 0
          /\ chain[1].order_id = "GENESIS"
          /\ chain[1].previous_hash = Sentinel
          /\ ret.op = "__init__" => Len(chain) = 1)
    /\ [][chain'[1] = chain[1]]_vars

C10_Witness == Len(chain) >= 3 /\ chain[1].order_id = "GENESIS" /\ ret.op = "add_block"

\* Every block's index is its position and every block after the genesis
\* passes both checks.
Sequenced(c) == (\A p \in 0..(Len(c) - 1) : c[p + 1].index = p) /\ Intact(c)

\* Two blocks of c carry the same index and the same previous_hash.
Duplicated(c) ==
    \E i, j \in 1..Len(c) :
        i < j /\ c[i].index = c[j].index /\ c[i].previous_hash = c[j].previous_hash

\* C11: with two callers interleaving the read and the append of add_block,
\* the sequencing is either kept or broken by two blocks with the same index
\* and previous_hash, on which validate_chain() returns False; it is only
\* broken by an append whose read is no longer the last block, so calls made
\* one at a time keep it.
C11_InterleavingDuplicates ==
    /\ [](/\ Sequenced(chain) \/ Duplicated(chain)
          /\ Duplicated(chain) => ~Intact(chain)
          /\ (ret.op = "validate_chain" /\ Duplicated(chain)) => ~ret.ok)
    /\ [][(/\ Sequenced(chain)
           /\ \A c \in Callers :
                 (pending[c].pc = "read" /\ pending'[c].pc = "idle")
                     => pending[c].previous_block = GetLatestBlock(chain))
          => Sequenced(chain')]_vars

C11_Witness ==
    /\ ret.op = "validate_chain" /\ ~ret.ok
    /\ Len(chain) = 3
    /\ chain[2].index = chain[3].index
    /\ chain[2].previous_hash = chain[3].previous_hash

\* C12: validate_chain() and get_order_journey(k) leave the chain as it was,
\* length, order, fields and hashes; get_order_journey returns the journey
\* only, with no verdict; the verdict and position of validate_chain() are a
\* function of the chain alone, so repeating the call on an unchanged chain
\* repeats the result.
C12_ReadOnlyDeterministic ==
    /\ [](ret.op = "validate_chain" => ret = ValidateLoop(chain, 1))
    /\ [](ret.op = "get_order_journey" => DOMAIN ret = {"op", "key", "val"})
    /\ [][ret'.op \in {"validate_chain", "get_order_journey"}
             => chain' = chain]_vars
    /\ [][(ret.op = "validate_chain" /\ ret'.op = "validate_chain"
             /\ chain' = chain) => ret' = ret]_vars

C12_Witness ==
    /\ ret.op = "get_order_journey"
    /\ Len(ret.val) = 2
    /\ Len(chain) = 3
    /\ Failing(chain) # {}

\* C13: an add_block call whose attributes hold a value that cannot be
\* serialized fails with an error that identifies the offending key, and the
\* chain is left exactly as it was before the call.
C13_MalformedAttributeNamed ==
    /\ [](ret.op = "raise" => OffendingKey(ret.data) \in ret.error.notes)
    /\ [][ret'.op = "raise" => chain' = chain]_vars

\* The part of C13 that the code keeps: the call raises a TypeError and adds
\* no block.
C13_MalformedAttributeRejected ==
    /\ [](ret.op = "raise" => ret.error.type = "TypeError")
    /\ [][ret'.op = "raise" => chain' = chain]_vars
    /\ [][(chain' # chain) => (ret'.op = "add_block" /\ BadItems(ret'.val.data) = {})]_vars

\* Two blocks hold ==-equal values in each of the seven fields.
SameFields(a, b) == \A f \in FieldNames : PyEq(f, a[f], b[f])

\* Two blocks hold ==-equal values in each of the seven fields once the
\* timestamp is taken through str().
SameRendered(a, b) ==
    /\ Str(a.timestamp) = Str(b.timestamp)
    /\ \A f \in FieldNames \ {"timestamp"} : PyEq(f, a[f], b[f])

\* What C14 says of the stored hash and the clock: the hash computed now from
\* the block, whatever its stored hash, is the one computed at construction.
HashIgnoresRest(a) ==
    /\ a.hash = CalculateHash(a)
    /\ CalculateHash([a EXCEPT !.hash = Sentinel]) = a.hash
    /\ ret.op = "calculate_hash" => ret.out = a.hash

C14_PureOfRenderedFields ==
    ret.op \in {"Block", "calculate_hash"} =>
        /\ HashIgnoresRest(ret.val)
        /\ \A b \in HashBlocks :
              /\ SameFields(ret.val, b) => ret.val.hash = b.hash
              /\ SameRendered(ret.val, b) <=> (ret.val.hash = b.hash)

\* Some block of c has a timestamp earlier than its predecessor's.
Backdated(c) ==
    \E p \in 1..(Len(c) - 1) : c[p + 1].timestamp[2] < c[p].timestamp[2]

\* C15: the order of the timestamps is no part of validity: a chain with a
\* backdated block validates True when every block's hash matches its fields
\* and every previous_hash matches the predecessor's hash, and
\* validate_chain() returns False only at a block that fails one of these two
\* checks.
C15_BackdatedValidates ==
    ret.op = "validate_chain" =>
        /\ (Backdated(chain) /\ Intact(chain)) => ret.ok
        /\ ~ret.ok => ret.pos \in Failing(chain)

C15_Witness ==
    /\ ret.op = "validate_chain" /\ ret.ok
    /\ Len(chain) = 3
    /\ chain[3].timestamp[2] < chain[2].timestamp[2]

\* chain is orig with the given field of the block at p changed to a different
\* value and that block's hash recomputed from its changed fields.
ChangedAndRehashed(p, field) ==
    /\ p < Len(orig)
    /\ ~PyEq(field, chain[p + 1][field], orig[p + 1][field])
    /\ chain = [orig EXCEPT ![p + 1] =
                   [orig[p + 1] EXCEPT ![field] = chain[p + 1][field],
                                       !.hash = CalculateHash(chain[p + 1])]]

\* The change of the field at p is one that str() erases: the timestamp
\* replaced by a value with the same str() text.
SameText(p, field) ==
    field = "timestamp" /\ Str(chain[p + 1].timestamp) = Str(orig[p + 1].timestamp)

\* C16 as claimed: after a field of the block at position i >= 1 of a valid
\* chain is changed and the block re-hashed, the block passes its own hash
\* check, and validate_chain() returns False exactly when the block has a
\* successor, reporting a broken link at i + 1, and True when it is the last.
C16_RehashedFailsAtSuccessor ==
    \A p \in 1..(Len(chain) - 1), field \in FieldNames :
        (ret.op = "validate_chain" /\ Intact(orig) /\ ChangedAndRehashed(p, field))
            => /\ SelfConsistent(chain, p)
               /\ IF p < Len(chain) - 1
                  THEN ~ret.ok /\ ret.pos = p + 1 /\ ret.kind = "Chain broken"
                  ELSE ret.ok

\* C16 amended: after a field of the block at position i >= 1 of a valid chain
\* is changed and the block re-hashed, the block passes its own hash check.
\* If the field is previous_hash, validate_chain() returns False and reports a
\* broken link at i itself, successor or not.  If the change is one str()
\* erases (the timestamp replaced by its own text), the hash is the same and
\* validate_chain() returns True.  Otherwise it returns False exactly when the
\* block has a successor, reporting a broken link at i + 1, and True when the
\* block is the last.
C16_RehashedByField ==
    \A p \in 1..(Len(chain) - 1), field \in FieldNames :
        (ret.op = "validate_chain" /\ Intact(orig) /\ ChangedAndRehashed(p, field))
            => /\ SelfConsistent(chain, p)
               /\ IF field = "previous_hash"
                  THEN ~ret.ok /\ ret.pos = p /\ ret.kind = "Chain broken"
                  ELSE IF SameText(p, field) \/ p = Len(chain) - 1
                  THEN ret.ok
                  ELSE ~ret.ok /\ ret.pos = p + 1 /\ ret.kind = "Chain broken"

C16_Witness ==
    /\ ret.op = "validate_chain" /\ ~ret.ok /\ ret.pos = 2
    /\ Len(chain) = 3
    /\ Intact(orig)
    /\ ChangedAndRehashed(1, "action")

\* A re-hashed change of the last block, which validation accepts.
C16_WitnessLast ==
    /\ ret.op = "validate_chain" /\ ret.ok
    /\ Len(chain) = 3
    /\ Intact(orig)
    /\ ChangedAndRehashed(2, "action")

\* The first k blocks of c.
Prefix(c, k) == SubSeq(c, 1, k)

\* C17: on every chain for which validate_chain() returns True, the loop of
\* validate_chain returns True as well for each non-empty prefix, the chain
\* with blocks removed from its tail and the genesis block kept.
C17_PrefixClosed ==
    (ret.op = "validate_chain" /\ ret.ok) =>
        \A k \in 1..Len(chain) : ValidateLoop(Prefix(chain, k), 1).ok

C17_Witness ==
    /\ ret.op = "validate_chain" /\ ret.ok
    /\ Len(chain) = 3
    /\ tampers > 0
    /\ ValidateLoop(Prefix(chain, 2), 1) = Valid

====
